---- MODULE Spec2Model ----
(***************************************************************************)
(* Model of src/hooks/useOrdensServico.ts: the four data-access hooks for  *)
(* service orders (ordem_servico).  The remote tables are the shared       *)
(* state; every `await` of a hook is one atomic step of the caller that    *)
(* runs it, so that callers interleave exactly at the awaits.              *)
(***************************************************************************)
EXTENDS Integers, Sequences, FiniteSets, TLC

\* ------------------------------------------------------------------ bounds
MaxOps     == 2   \* hook invocations started in one behaviour
MaxFalhas  == 1   \* data-service errors injected in one behaviour
MaxOrdens  == 3   \* order ids the service hands out (two rows exist at start)
MaxSeq     == 5   \* updates of one sequential run (SpecSeq)

\* ------------------------------------------------------- values and tables
NULL         == "null"        \* SQL NULL / JS null
NaoInformado == "undefined"   \* a field the object does not carry

Procs   == {"a", "b"}         \* concurrent callers of the hooks
OrdIds  == 1..MaxOrdens
OrcIds  == {"E1", "E2", "E3"}
Pecas   == {"P1", "P2"}

statusAntesFinalizacao == {"Andamento", "Aguardando Peças"}
statusFinalizacao      == {"Finalizado", "Entregue"}
StatusServico == statusAntesFinalizacao \cup statusFinalizacao \cup {"Cancelado"}

\* orcamento_pecas rows of each estimate (peca_id, quantidade); no hook of this
\* file writes that table.
OrcamentoPecas(e) ==
  IF e = "E1" THEN << [peca_id |-> "P1", quantidade |-> 2],
                      [peca_id |-> "P2", quantidade |-> 1] >>
  ELSE IF e = "E2" THEN << [peca_id |-> "P1", quantidade |-> 1] >>
  ELSE << >>

\* veiculos rows of each customer; no hook of this file writes that table.
VeiculosDoCliente(c) == IF c = "C1" THEN {"V1", "V2"} ELSE {}

Ausente == [existe |-> FALSE]
Linha(s, o, v, c) ==
  [existe |-> TRUE, status_servico |-> s, orcamento_id |-> o,
   veiculo_id |-> v, cliente_id |-> c]

OrdensIniciais ==
  [i \in OrdIds |->
     IF i = 1 THEN Linha("Andamento", "E1", NULL, "C1")
     ELSE IF i = 2 THEN Linha("Finalizado", NULL, NULL, "C2")
     ELSE Ausente]

EstoqueInicial == [pc \in Pecas |-> IF pc = "P1" THEN 5 ELSE 3]

\* inputs of the mutations
UpdatesPossiveis ==
  [status_servico : StatusServico \cup {NaoInformado},
   orcamento_id   : {NaoInformado}]
  \cup [status_servico : {"Finalizado"}, orcamento_id : {NULL}]
InsertsPossiveis ==
  { [status_servico |-> "Andamento", orcamento_id |-> "E3",
     veiculo_id |-> "V1", cliente_id |-> "C1"],
    [status_servico |-> "Entregue", orcamento_id |-> NULL,
     veiculo_id |-> NULL, cliente_id |-> NULL] }

VARIABLES
  ordens,      \* table ordem_servico: id -> row
  orcamentos,  \* table orcamentos: id -> status
  estoque,     \* stock of every part (table pecas)
  proximoId,   \* next id the service gives an inserted order
  pc,          \* where each caller is
  req,         \* the arguments of the caller's running hook
  lido,        \* what the hook's first query returned
  falhou,      \* the step that threw, or "nenhuma"
  feitos,      \* the steps of the running hook that took effect
  chamadas,    \* inventory mutations the running hook invoked
  notific,     \* toasts the running hook issued
  invalid,     \* query keys the running hook invalidated
  retorno,     \* what the read hook returned
  nOps,        \* hooks started
  falhas       \* service errors injected

vars == << ordens, orcamentos, estoque, proximoId, pc, req, lido, falhou,
           feitos, chamadas, notific, invalid, retorno, nOps, falhas >>

db == << ordens, orcamentos, estoque, proximoId >>

SemReq     == [op |-> "nenhuma"]
SemRetorno == [pronto |-> FALSE, dados |-> << >>, buscas |-> {}, erros |-> {}]

Init ==
  /\ ordens = OrdensIniciais
  /\ orcamentos = [e \in OrcIds |-> "Aprovado"]
  /\ estoque = EstoqueInicial
  /\ proximoId = 3
  /\ pc = [p \in Procs |-> "ocioso"]
  /\ req = [p \in Procs |-> SemReq]
  /\ lido = [p \in Procs |-> NULL]
  /\ falhou = [p \in Procs |-> "nenhuma"]
  /\ feitos = [p \in Procs |-> {}]
  /\ chamadas = [p \in Procs |-> << >>]
  /\ notific = [p \in Procs |-> << >>]
  /\ invalid = [p \in Procs |-> {}]
  /\ retorno = [p \in Procs |-> SemRetorno]
  /\ nOps = 0
  /\ falhas = 0

\* ---------------------------------------------------------------- helpers
Livre(p) == pc[p] \in {"ocioso", "fim"}

\* A caller starts a hook: what its last invocation left is dropped.
Comecar(p, r, onde, limite) ==
  /\ Livre(p)
  /\ nOps < limite
  /\ nOps' = nOps + 1
  /\ pc' = [pc EXCEPT ![p] = onde]
  /\ req' = [req EXCEPT ![p] = r]
  /\ falhou' = [falhou EXCEPT ![p] = "nenhuma"]
  /\ notific' = [notific EXCEPT ![p] = << >>]
  /\ invalid' = [invalid EXCEPT ![p] = {}]
  /\ retorno' = [retorno EXCEPT ![p] = SemRetorno]
  /\ UNCHANGED << db, lido, feitos, chamadas, falhas >>

\* The hook of p has settled: the locals of its mutationFn / queryFn are gone.
Encerrar(p) ==
  /\ pc' = [pc EXCEPT ![p] = "fim"]
  /\ req' = [req EXCEPT ![p] = SemReq]
  /\ lido' = [lido EXCEPT ![p] = NULL]
  /\ feitos' = [feitos EXCEPT ![p] = {}]
  /\ chamadas' = [chamadas EXCEPT ![p] = << >>]

\* The service may answer a request with an error.
PodeFalhar == falhas < MaxFalhas

\* A step of p throws: the hook's remaining steps are skipped.
Lancar(p, passo, onde, injetada) ==
  /\ falhou' = [falhou EXCEPT ![p] = passo]
  /\ pc' = [pc EXCEPT ![p] = onde]
  /\ falhas' = IF injetada THEN falhas + 1 ELSE falhas

\* if (error) throw error, after a .single() on the row `id`: the service
\* answers with an error when the row is missing, and may do so anyway.
LancaSeAusente(p, passo, onde) ==
  \/ ~ordens[req[p].id].existe /\ Lancar(p, passo, onde, FALSE)
  \/ PodeFalhar /\ Lancar(p, passo, onde, TRUE)

\* inventory mutations (./useEstoquePecas): stock minus / plus each entry
RECURSIVE Consumir(_, _)
Consumir(est, ps) ==
  IF ps = << >> THEN est
  ELSE Consumir([est EXCEPT ![Head(ps).pecaId] = @ - Head(ps).quantidadeUtilizada],
                Tail(ps))

RECURSIVE Devolver(_, _)
Devolver(est, ps) ==
  IF ps = << >> THEN est
  ELSE Devolver([est EXCEPT ![Head(ps).pecaId] = @ + Head(ps).quantidadeUtilizada],
                Tail(ps))

\* ------------------------------------------------------------ update hook
ChamarUpdate(p) ==
  \E id \in OrdIds, u \in UpdatesPossiveis :
    Comecar(p, [op |-> "update", id |-> id, updates |-> u], "u_ler", MaxOps)

\* select *, orcamento:orcamentos(orcamento_pecas(quantidade, peca_id))
\*   .eq("id", id).single()
\* (orcamento is null when the order has no estimate)
OsAtual(id) ==
  [status_servico |-> ordens[id].status_servico,
   orcamento |-> IF ordens[id].orcamento_id = NULL
                 THEN [nulo |-> TRUE, orcamento_pecas |-> << >>]
                 ELSE [nulo |-> FALSE,
                       orcamento_pecas |-> OrcamentoPecas(ordens[id].orcamento_id)]]

UpdateLer(p) ==
  /\ pc[p] = "u_ler"
  /\ ordens[req[p].id].existe
  /\ lido' = [lido EXCEPT ![p] = OsAtual(req[p].id)]
  /\ feitos' = [feitos EXCEPT ![p] = @ \cup {"ler"}]
  /\ pc' = [pc EXCEPT ![p] = "u_gravar"]
  /\ UNCHANGED << db, req, falhou, chamadas, notific, invalid, retorno, nOps, falhas >>

UpdateLerFalha(p) ==
  /\ pc[p] = "u_ler"
  /\ LancaSeAusente(p, "ler", "u_erro")
  /\ UNCHANGED << db, req, lido, feitos, chamadas, notific, invalid, retorno, nOps >>

\* .update(updates).eq("id", id): the fields updates carries replace the row's
Aplicar(linha, u) ==
  [linha EXCEPT
     !.status_servico = IF u.status_servico = NaoInformado THEN @ ELSE u.status_servico,
     !.orcamento_id   = IF u.orcamento_id = NaoInformado THEN @ ELSE u.orcamento_id]

UpdateGravar(p) ==
  /\ pc[p] = "u_gravar"
  /\ ordens[req[p].id].existe
  /\ ordens' = [ordens EXCEPT ![req[p].id] = Aplicar(@, req[p].updates)]
  /\ feitos' = [feitos EXCEPT ![p] = @ \cup {"gravar"}]
  /\ pc' = [pc EXCEPT ![p] = "u_estoque"]
  /\ UNCHANGED << orcamentos, estoque, proximoId, req, lido, falhou, chamadas,
                  notific, invalid, retorno, nOps, falhas >>

UpdateGravarFalha(p) ==
  /\ pc[p] = "u_gravar"
  /\ LancaSeAusente(p, "gravar", "u_erro")
  /\ UNCHANGED << db, req, lido, feitos, chamadas, notific, invalid, retorno, nOps >>

\* novoStatus && osAtual.orcamento?.orcamento_pecas && ....length > 0
TemPecas(novoStatus, osAtual) ==
  /\ novoStatus # NaoInformado
  /\ ~osAtual.orcamento.nulo
  /\ Len(osAtual.orcamento.orcamento_pecas) > 0

PecasParaProcessar(orcamento_pecas) ==
  [i \in 1..Len(orcamento_pecas) |->
     [pecaId |-> orcamento_pecas[i].peca_id,
      quantidadeUtilizada |-> orcamento_pecas[i].quantidade]]

\* variants of the two status tests, each a slip the claims below must notice
DeveConsumir_SoFinalizado(statusAnterior, novoStatus) ==
  statusAnterior \in statusAntesFinalizacao /\ novoStatus = "Finalizado"

DeveConsumir_SemAnterior(statusAnterior, novoStatus) ==
  novoStatus \in statusFinalizacao

DeveConsumir_SoEntregue(statusAnterior, novoStatus) ==
  statusAnterior \in statusAntesFinalizacao /\ novoStatus = "Entregue"

DeveDevolver_SoAndamento(statusAnterior, novoStatus) ==
  statusAnterior \in statusFinalizacao /\ novoStatus = "Andamento"

DeveDevolver_SoFinalizado(statusAnterior, novoStatus) ==
  statusAnterior = "Finalizado" /\ novoStatus \in statusAntesFinalizacao

DeveConsumir(statusAnterior, novoStatus) ==
  statusAnterior \in statusAntesFinalizacao /\ novoStatus \in statusFinalizacao

DeveDevolver(statusAnterior, novoStatus) ==
  statusAnterior \in statusFinalizacao /\ novoStatus \in statusAntesFinalizacao

\* the inventory mutations the update invokes, in order
Ajustes(osAtual, updates) ==
  IF ~TemPecas(updates.status_servico, osAtual) THEN << >>
  ELSE (IF DeveConsumir(osAtual.status_servico, updates.status_servico)
          THEN << "consumir" >> ELSE << >>)
       \o (IF DeveDevolver(osAtual.status_servico, updates.status_servico)
          THEN << "devolver" >> ELSE << >>)

Chamada(aj, osAtual) ==
  [op |-> aj, pecas |-> PecasParaProcessar(osAtual.orcamento.orcamento_pecas)]

RECURSIVE AplicarAjustes(_, _, _)
AplicarAjustes(est, ajs, ps) ==
  IF ajs = << >> THEN est
  ELSE AplicarAjustes(IF Head(ajs) = "consumir" THEN Consumir(est, ps)
                      ELSE Devolver(est, ps), Tail(ajs), ps)

\* lines 112-134 with every mutateAsync resolving
UpdateEstoque(p) ==
  /\ pc[p] = "u_estoque"
  /\ LET ajs == Ajustes(lido[p], req[p].updates)
     IN /\ chamadas' = [chamadas EXCEPT ![p] =
                          IF ajs = << >> THEN @
                          ELSE @ \o [i \in 1..Len(ajs) |-> Chamada(ajs[i], lido[p])]]
        /\ estoque' = IF ajs = << >> THEN estoque
                      ELSE AplicarAjustes(estoque, ajs,
                             PecasParaProcessar(lido[p].orcamento.orcamento_pecas))
        /\ feitos' = [feitos EXCEPT ![p] =
                        IF ajs = << >> THEN @ ELSE @ \cup {"estoque"}]
  /\ pc' = [pc EXCEPT ![p] = "u_sucesso"]
  /\ UNCHANGED << ordens, orcamentos, proximoId, req, lido, falhou, notific,
                  invalid, retorno, nOps, falhas >>

\* lines 112-134 with the mutateAsync rejecting
UpdateEstoqueFalha(p) ==
  /\ pc[p] = "u_estoque"
  /\ PodeFalhar
  /\ LET ajs == Ajustes(lido[p], req[p].updates)
     IN /\ ajs # << >>
        /\ chamadas' = [chamadas EXCEPT ![p] = Append(@, Chamada(ajs[1], lido[p]))]
  /\ Lancar(p, "estoque", "u_erro", TRUE)
  /\ UNCHANGED << db, req, lido, feitos, notific, invalid, retorno, nOps >>

UpdateOnSuccess(p) ==
  /\ pc[p] = "u_sucesso"
  /\ invalid' = [invalid EXCEPT ![p] = @ \cup {"ordens_servico"}]
  /\ notific' = [notific EXCEPT ![p] = Append(@, "success")]
  /\ Encerrar(p)
  /\ UNCHANGED << db, falhou, retorno, nOps, falhas >>

UpdateOnError_Invalida(p) ==
  /\ pc[p] = "u_erro"
  /\ invalid' = [invalid EXCEPT ![p] = @ \cup {"ordens_servico"}]
  /\ notific' = [notific EXCEPT ![p] = Append(@, "error")]
  /\ Encerrar(p)
  /\ UNCHANGED << db, falhou, retorno, nOps, falhas >>

UpdateOnError(p) ==
  /\ pc[p] = "u_erro"
  /\ notific' = [notific EXCEPT ![p] = Append(@, "error")]
  /\ Encerrar(p)
  /\ UNCHANGED << db, falhou, invalid, retorno, nOps, falhas >>

\* ------------------------------------------------------------ create hook
\* ids are handed out by the service, one per inserted row
IdsPendentes == Cardinality({p \in Procs : pc[p] = "c_inserir"})

ChamarCreate(p) ==
  /\ proximoId + IdsPendentes <= MaxOrdens
  /\ \E n \in InsertsPossiveis :
       Comecar(p, [op |-> "create", ordemServico |-> n], "c_inserir", MaxOps)

CreateInserir(p) ==
  /\ pc[p] = "c_inserir"
  /\ LET n == req[p].ordemServico
     IN ordens' = [ordens EXCEPT ![proximoId] =
                     Linha(n.status_servico, n.orcamento_id, n.veiculo_id, n.cliente_id)]
  /\ proximoId' = proximoId + 1
  /\ feitos' = [feitos EXCEPT ![p] = @ \cup {"inserir"}]
  /\ pc' = [pc EXCEPT ![p] = "c_sucesso"]
  /\ UNCHANGED << orcamentos, estoque, req, lido, falhou, chamadas, notific,
                  invalid, retorno, nOps, falhas >>

CreateInserirFalha(p) ==
  /\ pc[p] = "c_inserir"
  /\ PodeFalhar
  /\ Lancar(p, "inserir", "c_erro", TRUE)
  /\ UNCHANGED << db, req, lido, feitos, chamadas, notific, invalid, retorno, nOps >>

CreateOnSuccess(p) ==
  /\ pc[p] = "c_sucesso"
  /\ invalid' = [invalid EXCEPT ![p] = @ \cup {"ordens_servico"}]
  /\ notific' = [notific EXCEPT ![p] = Append(@, "success")]
  /\ Encerrar(p)
  /\ UNCHANGED << db, falhou, retorno, nOps, falhas >>

CreateOnError(p) ==
  /\ pc[p] = "c_erro"
  /\ notific' = [notific EXCEPT ![p] = Append(@, "error")]
  /\ Encerrar(p)
  /\ UNCHANGED << db, falhou, invalid, retorno, nOps, falhas >>

\* ------------------------------------------------------------ delete hook
ChamarDelete(p) ==
  \E id \in OrdIds : Comecar(p, [op |-> "delete", id |-> id], "d_ler", MaxOps)

\* select("orcamento_id").eq("id", id).single()
DeleteLer(p) ==
  /\ pc[p] = "d_ler"
  /\ ordens[req[p].id].existe
  /\ lido' = [lido EXCEPT ![p] = [orcamento_id |-> ordens[req[p].id].orcamento_id]]
  /\ feitos' = [feitos EXCEPT ![p] = @ \cup {"ler"}]
  /\ pc' = [pc EXCEPT ![p] = "d_excluir"]
  /\ UNCHANGED << db, req, falhou, chamadas, notific, invalid, retorno, nOps, falhas >>

DeleteLerFalha(p) ==
  /\ pc[p] = "d_ler"
  /\ LancaSeAusente(p, "ler", "d_erro")
  /\ UNCHANGED << db, req, lido, feitos, chamadas, notific, invalid, retorno, nOps >>

TemOrcamento_Sempre(os) == TRUE

\* if (os.orcamento_id)
TemOrcamento(os) == os.orcamento_id # NULL

\* .delete().eq("id", id): no error when no row matches
DeleteExcluir(p) ==
  /\ pc[p] = "d_excluir"
  /\ ordens' = [ordens EXCEPT ![req[p].id] = Ausente]
  /\ feitos' = [feitos EXCEPT ![p] = @ \cup {"excluir"}]
  /\ pc' = [pc EXCEPT ![p] = IF TemOrcamento(lido[p]) THEN "d_reset" ELSE "d_sucesso"]
  /\ UNCHANGED << orcamentos, estoque, proximoId, req, lido, falhou, chamadas,
                  notific, invalid, retorno, nOps, falhas >>

DeleteExcluirFalha_Continua(p) ==
  /\ pc[p] = "d_excluir"
  /\ PodeFalhar
  /\ Lancar(p, "excluir", "d_reset", TRUE)
  /\ UNCHANGED << db, req, lido, feitos, chamadas, notific, invalid, retorno, nOps >>

DeleteExcluirFalha(p) ==
  /\ pc[p] = "d_excluir"
  /\ PodeFalhar
  /\ Lancar(p, "excluir", "d_erro", TRUE)
  /\ UNCHANGED << db, req, lido, feitos, chamadas, notific, invalid, retorno, nOps >>

\* .from("orcamentos").update({ status: "Pendente" }).eq("id", os.orcamento_id)
DeleteReset(p) ==
  /\ pc[p] = "d_reset"
  /\ orcamentos' = [orcamentos EXCEPT ![lido[p].orcamento_id] = "Pendente"]
  /\ feitos' = [feitos EXCEPT ![p] = @ \cup {"reset"}]
  /\ pc' = [pc EXCEPT ![p] = "d_sucesso"]
  /\ UNCHANGED << ordens, estoque, proximoId, req, lido, falhou, chamadas,
                  notific, invalid, retorno, nOps, falhas >>

DeleteResetFalha(p) ==
  /\ pc[p] = "d_reset"
  /\ PodeFalhar
  /\ Lancar(p, "reset", "d_erro", TRUE)
  /\ UNCHANGED << db, req, lido, feitos, chamadas, notific, invalid, retorno, nOps >>

DeleteOnSuccess(p) ==
  /\ pc[p] = "d_sucesso"
  /\ invalid' = [invalid EXCEPT ![p] = @ \cup {"ordens_servico", "orcamentos"}]
  /\ notific' = [notific EXCEPT ![p] = Append(@, "success")]
  /\ Encerrar(p)
  /\ UNCHANGED << db, falhou, retorno, nOps, falhas >>

DeleteOnError(p) ==
  /\ pc[p] = "d_erro"
  /\ notific' = [notific EXCEPT ![p] = Append(@, "error")]
  /\ Encerrar(p)
  /\ UNCHANGED << db, falhou, invalid, retorno, nOps, falhas >>

\* -------------------------------------------------------------- read hook
ChamarRead(p) == Comecar(p, [op |-> "read"], "r_consulta", MaxOps)

\* .order("created_at", { ascending: false }): ids are handed out in creation
\* order, so the newest row is the one with the largest id
RECURSIVE OrdensDesc(_)
OrdensDesc(n) ==
  IF n = 0 THEN << >>
  ELSE (IF ordens[n].existe
          THEN << [id |-> n, veiculo |-> ordens[n].veiculo_id,
                   cliente_id |-> ordens[n].cliente_id] >>
          ELSE << >>) \o OrdensDesc(n - 1)

ReadConsulta(p) ==
  /\ pc[p] = "r_consulta"
  /\ lido' = [lido EXCEPT ![p] = OrdensDesc(MaxOrdens)]
  /\ pc' = [pc EXCEPT ![p] = "r_veiculos"]
  /\ UNCHANGED << db, req, falhou, feitos, chamadas, notific, invalid, retorno,
                  nOps, falhas >>

\* if (error) throw error
ReadConsultaFalha(p) ==
  /\ pc[p] = "r_consulta"
  /\ PodeFalhar
  /\ falhou' = [falhou EXCEPT ![p] = "consulta"]
  /\ falhas' = falhas + 1
  /\ Encerrar(p)
  /\ UNCHANGED << db, notific, invalid, retorno, nOps >>

\* if (!os.veiculo && os.cliente_id)
PrecisaBuscar(os) == os.veiculo = NULL /\ os.cliente_id # NULL

\* what .from("veiculos").select("*").eq("cliente_id", c).limit(1) may answer
\* in `data`: null on an error, else at most one row, whichever the service picks
SemData == [nulo |-> TRUE, linhas |-> << >>]
RespostasVeiculos(c, erro) ==
  IF erro THEN {SemData}
  ELSE IF VeiculosDoCliente(c) = {} THEN {[nulo |-> FALSE, linhas |-> << >>]}
  ELSE {[nulo |-> FALSE, linhas |-> << v >>] : v \in VeiculosDoCliente(c)}

\* one answer per row of the main query (SemData where no lookup is issued)
RECURSIVE Respostas(_, _, _)
Respostas(os, erros, i) ==
  IF i > Len(os) THEN {<< >>}
  ELSE LET aqui == IF PrecisaBuscar(os[i])
                   THEN RespostasVeiculos(os[i].cliente_id, i \in erros)
                   ELSE {SemData}
       IN {<< d >> \o r : d \in aqui, r \in Respostas(os, erros, i + 1)}

\* lines 54-69: the row the map callback returns for os, given `data`
ComVeiculo(os, clienteVeiculos) ==
  [id |-> os.id, veiculo |-> os.veiculo, cliente_id |-> os.cliente_id,
   cliente_veiculo |->
     IF PrecisaBuscar(os) /\ ~clienteVeiculos.nulo /\ Len(clienteVeiculos.linhas) > 0
     THEN clienteVeiculos.linhas[1] ELSE NaoInformado]

\* Promise.all over the rows: every lookup is issued, `error` is not read
ReadVeiculos(p) ==
  /\ pc[p] = "r_veiculos"
  /\ LET os == lido[p]
         busca == {i \in 1..Len(os) : PrecisaBuscar(os[i])}
     IN \E erros \in SUBSET busca :
          /\ Cardinality(erros) <= MaxFalhas - falhas
          /\ falhas' = falhas + Cardinality(erros)
          /\ \E data \in Respostas(os, erros, 1) :
               /\ retorno' = [retorno EXCEPT ![p] =
                    [pronto |-> TRUE,
                     dados |-> IF os = << >> THEN << >>
                               ELSE [i \in 1..Len(os) |-> ComVeiculo(os[i], data[i])],
                     buscas |-> {os[i].id : i \in busca},
                     erros |-> {os[i].id : i \in erros}]]
  /\ Encerrar(p)
  /\ UNCHANGED << db, falhou, notific, invalid, nOps >>

\* ------------------------------------------------------------------- spec
Next ==
  \E p \in Procs :
    \/ ChamarUpdate(p)
    \/ UpdateLer(p)
    \/ UpdateLerFalha(p)
    \/ UpdateGravar(p)
    \/ UpdateGravarFalha(p)
    \/ UpdateEstoque(p)
    \/ UpdateEstoqueFalha(p)
    \/ UpdateOnSuccess(p)
    \/ UpdateOnError(p)
    \/ ChamarCreate(p)
    \/ CreateInserir(p)
    \/ CreateInserirFalha(p)
    \/ CreateOnSuccess(p)
    \/ CreateOnError(p)
    \/ ChamarDelete(p)
    \/ DeleteLer(p)
    \/ DeleteLerFalha(p)
    \/ DeleteExcluir(p)
    \/ DeleteExcluirFalha(p)
    \/ DeleteReset(p)
    \/ DeleteResetFalha(p)
    \/ DeleteOnSuccess(p)
    \/ DeleteOnError(p)
    \/ ChamarRead(p)
    \/ ReadConsulta(p)
    \/ ReadConsultaFalha(p)
    \/ ReadVeiculos(p)

Spec == Init /\ [][Next]_vars

\* ------------------------------------------- sequential use of the update
\* One caller, one update at a time, every request answered without error,
\* only the four labels of the two status sets, the estimate links untouched.
InitSeq ==
  /\ \E s1 \in statusAntesFinalizacao, s2 \in statusAntesFinalizacao :
       ordens = [OrdensIniciais EXCEPT ![1] = Linha(s1, "E1", NULL, "C1"),
                                       ![2] = Linha(s2, "E2", NULL, "C2")]
  /\ orcamentos = [e \in OrcIds |-> "Aprovado"]
  /\ estoque = EstoqueInicial
  /\ proximoId = 3
  /\ pc = [p \in Procs |-> "ocioso"]
  /\ req = [p \in Procs |-> SemReq]
  /\ lido = [p \in Procs |-> NULL]
  /\ falhou = [p \in Procs |-> "nenhuma"]
  /\ feitos = [p \in Procs |-> {}]
  /\ chamadas = [p \in Procs |-> << >>]
  /\ notific = [p \in Procs |-> << >>]
  /\ invalid = [p \in Procs |-> {}]
  /\ retorno = [p \in Procs |-> SemRetorno]
  /\ nOps = 0
  /\ falhas = 0

ChamarUpdateSeq ==
  \E id \in {1, 2}, s \in statusAntesFinalizacao \cup statusFinalizacao :
    Comecar("a", [op |-> "update", id |-> id,
                  updates |-> [status_servico |-> s, orcamento_id |-> NaoInformado]],
            "u_ler", MaxSeq)

NextSeq ==
  \/ ChamarUpdateSeq
  \/ UpdateLer("a")
  \/ UpdateGravar("a")
  \/ UpdateEstoque("a")
  \/ UpdateOnSuccess("a")

SpecSeq == InitSeq /\ [][NextSeq]_vars

\* ================================================================= claims
\* what an update's first query read, and what the update asks for
LinhasLidas(p) ==
  IF lido[p].orcamento.nulo THEN << >> ELSE lido[p].orcamento.orcamento_pecas
LeuAntes(p)  == lido[p].status_servico \in {"Andamento", "Aguardando Peças"}
LeuFinal(p)  == lido[p].status_servico \in {"Finalizado", "Entregue"}
PedeAntes(p) == req[p].updates.status_servico \in {"Andamento", "Aguardando Peças"}
PedeFinal(p) == req[p].updates.status_servico \in {"Finalizado", "Entregue"}

\* one entry (part id, listed quantity) per part line
Entradas(linhas) ==
  [i \in 1..Len(linhas) |->
     [pecaId |-> linhas[i].peca_id, quantidadeUtilizada |-> linhas[i].quantidade]]

\* the quantity the part lines list for one part
RECURSIVE SomaQtd(_, _)
SomaQtd(linhas, x) ==
  IF linhas = << >> THEN 0
  ELSE (IF Head(linhas).peca_id = x THEN Head(linhas).quantidade ELSE 0)
       + SomaQtd(Tail(linhas), x)

\* p takes the inventory step of its update
PassoEstoque(p) == pc[p] = "u_estoque" /\ pc'[p] # "u_estoque"

\* ---------------------------------------------------------------------- C1
\* C1 as stated: an update that read 'Andamento' or 'Aguardando Peças' and asks
\* for 'Finalizado' or 'Entregue' has invoked consume exactly once, with one
\* entry per part line of the linked estimate, once its inventory step is done.
C1_ConsomeSempre ==
  \A p \in Procs :
    (pc[p] = "u_sucesso" /\ LeuAntes(p) /\ PedeFinal(p))
      => /\ Len(chamadas[p]) = 1
         /\ chamadas[p][1].op = "consumir"
         /\ Len(chamadas[p][1].pecas) = Len(LinhasLidas(p))

\* C1 amended: when moreover the estimate read with the order has at least one
\* part line, the inventory step of that update invokes consume exactly once
\* and nothing else, with one entry (part id, listed quantity) per part line;
\* when the invocation resolves every part's stock drops by the quantity its
\* lines list, and when it rejects the update throws.
C1_ConsomeUmaVez ==
  [][\A p \in Procs :
       (PassoEstoque(p) /\ LeuAntes(p) /\ PedeFinal(p) /\ LinhasLidas(p) # << >>)
         => /\ chamadas'[p] =
                 << [op |-> "consumir", pecas |-> Entradas(LinhasLidas(p))] >>
            /\ pc'[p] = "u_sucesso" =>
                 \A x \in Pecas :
                   estoque'[x] = estoque[x] - SomaQtd(LinhasLidas(p), x)
            /\ pc'[p] # "u_sucesso" => pc'[p] = "u_erro" /\ falhou'[p] = "estoque"
    ]_vars

\* an update read 'Aguardando Peças', asked for 'Entregue' and consumed both
\* part lines of E1
C1_Witness ==
  \E p \in Procs :
    /\ pc[p] = "u_sucesso"
    /\ lido[p].status_servico = "Aguardando Peças"
    /\ req[p].updates.status_servico = "Entregue"
    /\ Len(chamadas[p]) = 1 /\ chamadas[p][1].op = "consumir"
    /\ Len(chamadas[p][1].pecas) = 2
    /\ estoque["P2"] = EstoqueInicial["P2"] - 1

\* ---------------------------------------------------------------------- C2
\* C2 as stated: an update that read 'Finalizado' or 'Entregue' and asks for
\* 'Andamento' or 'Aguardando Peças' has invoked return exactly once, with
\* every part line of the linked estimate, once its inventory step is done.
C2_DevolveSempre ==
  \A p \in Procs :
    (pc[p] = "u_sucesso" /\ LeuFinal(p) /\ PedeAntes(p))
      => /\ Len(chamadas[p]) = 1
         /\ chamadas[p][1].op = "devolver"
         /\ Len(chamadas[p][1].pecas) = Len(LinhasLidas(p))

\* C2 amended: when moreover the estimate read with the order has at least one
\* part line, the inventory step of that update invokes return exactly once and
\* nothing else, with one entry per part line; when the invocation resolves
\* every part's stock rises by the quantity its lines list, and when it rejects
\* the update throws.
C2_DevolveUmaVez ==
  [][\A p \in Procs :
       (PassoEstoque(p) /\ LeuFinal(p) /\ PedeAntes(p) /\ LinhasLidas(p) # << >>)
         => /\ chamadas'[p] =
                 << [op |-> "devolver", pecas |-> Entradas(LinhasLidas(p))] >>
            /\ pc'[p] = "u_sucesso" =>
                 \A x \in Pecas :
                   estoque'[x] = estoque[x] + SomaQtd(LinhasLidas(p), x)
            /\ pc'[p] # "u_sucesso" => pc'[p] = "u_erro" /\ falhou'[p] = "estoque"
    ]_vars

\* an update read 'Entregue', asked for 'Aguardando Peças' and returned the
\* parts of its estimate
C2_Witness ==
  \E p \in Procs :
    /\ pc[p] = "u_sucesso"
    /\ lido[p].status_servico = "Entregue"
    /\ req[p].updates.status_servico = "Aguardando Peças"
    /\ Len(chamadas[p]) = 1 /\ chamadas[p][1].op = "devolver"
    /\ Len(chamadas[p][1].pecas) = 2

\* ---------------------------------------------------------------------- C3
\* the update crosses between the two status sets with part lines to process
Cruza(p) ==
  /\ LinhasLidas(p) # << >>
  /\ \/ LeuAntes(p) /\ PedeFinal(p)
     \/ LeuFinal(p) /\ PedeAntes(p)

\* C3: no step of an update changes the stock or invokes an inventory
\* mutation, except the inventory step of an update that read a status of one
\* set, asks for a status of the other and read at least one part line: no
\* status in the update, a status of the same set, a label outside both sets
\* read or asked for, no linked estimate, no part line - none touches the stock.
C3_SemEfeito ==
  [][\A p \in Procs :
       /\ (pc[p] \in {"u_ler", "u_gravar"} /\ pc'[p] # pc[p])
            => estoque' = estoque /\ chamadas'[p] = << >>
       /\ (PassoEstoque(p) /\ ~Cruza(p))
            => estoque' = estoque /\ chamadas'[p] = << >> /\ pc'[p] = "u_sucesso"
    ]_vars

\* two updates are past their inventory step with the stock as it started and
\* no inventory mutation invoked: one took an order without estimate from
\* 'Finalizado' to 'Andamento', the other moved an order with part lines
\* inside the first set
C3_Witness ==
  \E p, q \in Procs :
    /\ pc[p] = "u_sucesso" /\ pc[q] = "u_sucesso"
    /\ chamadas[p] = << >> /\ chamadas[q] = << >>
    /\ estoque = EstoqueInicial
    /\ lido[p].status_servico = "Finalizado" /\ lido[p].orcamento.nulo
    /\ req[p].updates.status_servico = "Andamento"
    /\ lido[q].status_servico = "Andamento" /\ LinhasLidas(q) # << >>
    /\ req[q].updates.status_servico = "Aguardando Peças"

\* ---------------------------------------------------------------------- C4
\* C4: the delete that succeeds in every step leaves the order absent; when its
\* lookup read a linked estimate, that estimate is 'Pendente' afterwards and
\* the reset changed no other estimate; when it read none, the delete has
\* updated no estimate; and the lookup read the link the order had.
C4_Delete ==
  [][\A p \in Procs :
       /\ (pc[p] = "d_ler" /\ pc'[p] = "d_excluir")
            => lido'[p].orcamento_id = ordens[req[p].id].orcamento_id
       /\ (pc[p] = "d_excluir" /\ pc'[p] \in {"d_reset", "d_sucesso"})
            => /\ ~ordens'[req[p].id].existe
               /\ orcamentos' = orcamentos
               /\ (pc'[p] = "d_sucesso") <=> (lido[p].orcamento_id = NULL)
       /\ (pc[p] = "d_reset" /\ pc'[p] = "d_sucesso")
            => /\ lido[p].orcamento_id \in OrcIds
               /\ \A e \in OrcIds :
                    orcamentos'[e] = IF e = lido[p].orcamento_id THEN "Pendente"
                                     ELSE orcamentos[e]
       /\ (pc'[p] = "d_sucesso")
            => /\ ~ordens'[req'[p].id].existe
               /\ lido'[p].orcamento_id # NULL
                    => orcamentos'[lido'[p].orcamento_id] = "Pendente"
               /\ lido'[p].orcamento_id = NULL => "reset" \notin feitos'[p]
    ]_vars

\* an order with an estimate and an order without one have both been deleted
C4_Witness ==
  \E p, q \in Procs :
    /\ pc[p] = "d_sucesso" /\ lido[p].orcamento_id = "E1"
    /\ orcamentos["E1"] = "Pendente" /\ orcamentos["E2"] = "Aprovado"
    /\ pc[q] = "d_sucesso" /\ lido[q].orcamento_id = NULL
    /\ feitos[q] = {"ler", "excluir"}

\* ---------------------------------------------------------------------- C5
PassosDeMutacao == {"ler", "gravar", "estoque", "inserir", "excluir", "reset"}

\* C5: a create, update or delete one of whose steps failed never issues the
\* success toast and invalidates no query; once settled it has issued the
\* error toast and nothing else.
C5_FalhaSemSucesso ==
  \A p \in Procs :
    falhou[p] \in PassosDeMutacao
      => /\ \A i \in 1..Len(notific[p]) : notific[p][i] # "success"
         /\ invalid[p] = {}
         /\ pc[p] = "fim" => notific[p] = << "error" >>
         /\ pc[p] \in {"u_erro", "c_erro", "d_erro", "fim"}

\* an update whose inventory adjustment was rejected has settled
C5_Witness ==
  \E p, q \in Procs :
    /\ pc[p] = "fim" /\ falhou[p] = "estoque" /\ notific[p] = << "error" >>
    /\ pc[q] = "fim" /\ falhou[q] = "ler" /\ notific[q] = << "error" >>

\* ---------------------------------------------------------------------- C6
\* C6: in the list the read returns, an order without a vehicle whose customer
\* has a vehicle carries cliente_veiculo, one of that customer's vehicles; one
\* whose customer has none carries no cliente_veiculo; an order with a vehicle
\* carries none and no lookup was issued for it.
C6_Fallback ==
  \A p \in Procs :
    retorno[p].pronto =>
      \A i \in 1..Len(retorno[p].dados) :
        LET os == retorno[p].dados[i]
        IN /\ (os.veiculo = NULL /\ os.cliente_id # NULL
                 /\ VeiculosDoCliente(os.cliente_id) # {})
                => os.cliente_veiculo \in VeiculosDoCliente(os.cliente_id)
           /\ (os.veiculo = NULL /\ os.cliente_id # NULL
                 /\ VeiculosDoCliente(os.cliente_id) = {})
                => os.cliente_veiculo = NaoInformado
           /\ os.veiculo # NULL
                => os.cliente_veiculo = NaoInformado /\ os.id \notin retorno[p].buscas

\* ---------------------------------------------------------------------- C7
PcErro == {"u_erro", "c_erro", "d_erro"}

\* C7: the step of an update or delete that fails changes no table, runs no
\* further step of its hook (only the error callback follows, which changes no
\* table either), and the steps before it keep their effect: nothing took
\* effect before a failed lookup or read, only the read before a failed delete
\* or write, and after a failed reset or inventory adjustment the delete and
\* the write stand.
C7_Aborta ==
  [][\A p \in Procs :
       /\ (falhou[p] = "nenhuma" /\ falhou'[p] \in PassosDeMutacao)
            => /\ ordens' = ordens /\ orcamentos' = orcamentos
               /\ falhou'[p] # "estoque" => estoque' = estoque
               /\ pc'[p] \in PcErro
               /\ feitos'[p] = feitos[p]
       /\ (pc[p] \in PcErro /\ pc'[p] # pc[p])
            => pc'[p] = "fim" /\ ordens' = ordens /\ orcamentos' = orcamentos
                 /\ estoque' = estoque
       /\ (pc'[p] \in {"u_erro", "d_erro"})
            => /\ falhou'[p] = "ler" => feitos'[p] = {}
               /\ falhou'[p] \in {"gravar", "excluir"} => feitos'[p] = {"ler"}
               /\ falhou'[p] \in {"ler", "gravar"} => chamadas'[p] = << >>
               /\ falhou'[p] = "estoque" => feitos'[p] = {"ler", "gravar"}
               /\ falhou'[p] = "reset" => feitos'[p] = {"ler", "excluir"}
    ]_vars

\* a delete whose reset failed: the order is gone, the estimate as it was
C7_Witness ==
  \E p \in Procs :
    /\ pc[p] = "d_erro" /\ falhou[p] = "reset"
    /\ ~ordens[req[p].id].existe
    /\ orcamentos[lido[p].orcamento_id] = "Aprovado"

\* ---------------------------------------------------------------------- C8
\* C8: the read returns a list only when the main query and every lookup of a
\* customer's vehicles were answered without error.
C8_PropagaErro ==
  \A p \in Procs :
    /\ retorno[p].pronto => retorno[p].erros = {}
    /\ falhou[p] = "consulta" => ~retorno[p].pronto

\* ---------------------------------------------------------------------- C9
\* C9: an update's inventory step does not look at what other updates of the
\* same order have done: though another update of that order has already
\* consumed the parts and not yet settled, an update that read a status before
\* completion and asks for a completion status consumes them again.
C9_SemCoordenacao ==
  [][\A p, q \in Procs :
       (/\ p # q
        /\ pc[q] = "u_sucesso" /\ pc[p] = "u_estoque" /\ pc'[p] = "u_sucesso"
        /\ req[q].id = req[p].id
        /\ chamadas[q] # << >> /\ chamadas[q][1].op = "consumir"
        /\ LeuAntes(p) /\ PedeFinal(p) /\ LinhasLidas(p) # << >>)
         => /\ Len(chamadas'[p]) = 1 /\ chamadas'[p][1] = chamadas[q][1]
            /\ \A x \in Pecas :
                 estoque'[x] = estoque[x] - SomaQtd(LinhasLidas(p), x)
    ]_vars

\* two updates of order 1 both read 'Andamento' and asked for 'Finalizado':
\* the stored status changed once, the stock of P1 dropped by twice 2
C9_Witness ==
  \E p, q \in Procs :
    /\ p # q
    /\ pc[p] = "u_sucesso" /\ pc[q] = "u_sucesso"
    /\ req[p].id = 1 /\ req[q].id = 1
    /\ lido[p].status_servico = "Andamento" /\ lido[q].status_servico = "Andamento"
    /\ req[p].updates.status_servico = "Finalizado"
    /\ req[q].updates.status_servico = "Finalizado"
    /\ chamadas[p] # << >> /\ chamadas[q] # << >>
    /\ ordens[1].status_servico = "Finalizado"
    /\ estoque["P1"] = EstoqueInicial["P1"] - 4
    /\ estoque["P2"] = EstoqueInicial["P2"] - 2

\* --------------------------------------------------------------------- C10
\* what the orders now in a completion status have listed for part x
RECURSIVE ListadoFinalizadas(_, _)
ListadoFinalizadas(n, x) ==
  IF n = 0 THEN 0
  ELSE (IF ordens[n].existe /\ ordens[n].status_servico \in {"Finalizado", "Entregue"}
           /\ ordens[n].orcamento_id # NULL
          THEN SomaQtd(OrcamentoPecas(ordens[n].orcamento_id), x) ELSE 0)
       + ListadoFinalizadas(n - 1, x)

\* C10: with updates run one at a time and all succeeding, between updates the
\* stock of every part is its initial value minus what the orders now
\* 'Finalizado' or 'Entregue' list for it (nothing for an order now 'Andamento'
\* or 'Aguardando Peças').
C10_Conservacao ==
  (\A p \in Procs : Livre(p))
    => \A x \in Pecas :
         estoque[x] = EstoqueInicial[x] - ListadoFinalizadas(MaxOrdens, x)

\* after at least four updates order 1 is delivered, order 2 back in progress
C10_Witness ==
  /\ \A p \in Procs : Livre(p)
  /\ nOps >= 4
  /\ ordens[1].status_servico = "Entregue"
  /\ ordens[2].status_servico = "Aguardando Peças"
  /\ estoque["P1"] = EstoqueInicial["P1"] - 2
====
